---- MODULE Spec2Model ----
(***************************************************************************)
(* Shipment-record extraction: the port reference resolver, the field      *)
(* normalizers, the product-line deriver and the record assembler of       *)
(* extract.py, with the driver loop of main().                             *)
(*                                                                         *)
(* Python values are tagged records (None, str, number, bool, list, dict). *)
(* Strings are TLA+ strings handled character by character with SubSeq.    *)
(* Numbers are held in thousandths (500.0 is 500000); NaN and the          *)
(* infinities are values of their own.                                     *)
(***************************************************************************)
EXTENDS Integers, Sequences, FiniteSets, TLC

VARIABLES
    pc,         \* position of main(): "load", "oracle", "post", "done" ("unit": no run)
    data,       \* load_port_reference: the reference file
    idx,        \* load_port_reference: entries of data read so far
    temp_map,   \* load_port_reference: code -> names in input order
    port_map,   \* the mapping returned by load_port_reference
    emails,     \* main: the emails of the input file
    cur,        \* main: index of the email being processed
    draft,      \* process_email: `data`, the parsed oracle response
    oracle_ok,  \* process_email: FALSE when the try block of step 1 failed
    results,    \* main: the records appended so far
    call,       \* unit application of a helper: the function and its arguments
    ret,        \* unit application of a helper: its outcome
    outputs_file,   \* evaluate_accuracy: the items of output.json
    truth_file,     \* evaluate_accuracy: the items of ground_truth.json
    ev_pc,          \* evaluate_accuracy: "start", "loop", "done" ("off": no run)
    gt_pos,         \* evaluate_accuracy: ground-truth ids iterated so far
    total_fields,   \* evaluate_accuracy: global total
    correct_fields, \* evaluate_accuracy: global correct count
    field_metrics,  \* evaluate_accuracy: field -> [correct, total]
    report          \* evaluate_accuracy: the accuracies printed

evalVars == <<outputs_file, truth_file, ev_pc, gt_pos, total_fields, correct_fields,
              field_metrics, report>>

vars == <<pc, data, idx, temp_map, port_map, emails, cur, draft,
          oracle_ok, results, call, ret, evalVars>>

(***************************************************************************)
(* Python values                                                           *)
(***************************************************************************)
None == [t |-> "none"]
Str(s) == [t |-> "str", s |-> s]
Num(n) == [t |-> "num", n |-> n]
NaN == [t |-> "nan"]
Inf(neg) == [t |-> "inf", neg |-> neg]
Bool(b) == [t |-> "bool", b |-> b]
List(len) == [t |-> "list", len |-> len]
Dict(len) == [t |-> "dict", len |-> len]
Raised == [t |-> "raised"]

IsStr(v) == v.t = "str"

\* Python truth value of v (`if v:` / `not v`).
Truthy(v) ==
    CASE v.t = "none" -> FALSE
      [] v.t = "str" -> v.s # ""
      [] v.t = "num" -> v.n # 0
      [] v.t = "bool" -> v.b
      [] v.t = "list" -> v.len > 0
      [] v.t = "dict" -> v.len > 0
      [] OTHER -> TRUE

(***************************************************************************)
(* str methods and the regular-expression primitives used by extract.py    *)
(***************************************************************************)
Lowers == "abcdefghijklmnopqrstuvwxyz"
Uppers == "ABCDEFGHIJKLMNOPQRSTUVWXYZ"
Digits == "0123456789"

CharAt(s, i) == SubSeq(s, i, i)
CharIn(c, alphabet) == \E i \in 1..Len(alphabet) : CharAt(alphabet, i) = c
IndexIn(c, alphabet) == CHOOSE i \in 1..Len(alphabet) : CharAt(alphabet, i) = c

UpperChar(c) == IF CharIn(c, Lowers) THEN CharAt(Uppers, IndexIn(c, Lowers)) ELSE c
LowerChar(c) == IF CharIn(c, Uppers) THEN CharAt(Lowers, IndexIn(c, Uppers)) ELSE c

RECURSIVE Upper(_)
Upper(s) == IF s = "" THEN "" ELSE UpperChar(CharAt(s, 1)) \o Upper(SubSeq(s, 2, Len(s)))

RECURSIVE Lower(_)
Lower(s) == IF s = "" THEN "" ELSE LowerChar(CharAt(s, 1)) \o Lower(SubSeq(s, 2, Len(s)))

IsSpace(c) == c \in {" ", "\t", "\n", "\r"}
IsDigit(c) == CharIn(c, Digits)
IsWordChar(c) == CharIn(c, Lowers) \/ CharIn(c, Uppers) \/ IsDigit(c) \/ c = "_"

RECURSIVE LStrip(_)
LStrip(s) == IF s # "" /\ IsSpace(CharAt(s, 1)) THEN LStrip(SubSeq(s, 2, Len(s))) ELSE s

RECURSIVE RStrip(_)
RStrip(s) ==
    IF s # "" /\ IsSpace(CharAt(s, Len(s))) THEN RStrip(SubSeq(s, 1, Len(s) - 1)) ELSE s

Strip(s) == RStrip(LStrip(s))

StartsWith(s, p) == Len(s) >= Len(p) /\ SubSeq(s, 1, Len(p)) = p

\* sub occurs in s at position i.
OccursAt(s, sub, i) == i >= 1 /\ i + Len(sub) - 1 <= Len(s) /\ SubSeq(s, i, i + Len(sub) - 1) = sub

\* `sub in s`, and re.search of a pattern without metacharacters.
Contains(s, sub) == \E i \in 1..(Len(s) + 1) : OccursAt(s, sub, i)

\* The character of s at i is a word character (FALSE outside the string).
WordAt(s, i) == i >= 1 /\ i <= Len(s) /\ IsWordChar(CharAt(s, i))

\* \b holds between the characters i-1 and i of s.
Boundary(s, i) == WordAt(s, i - 1) # WordAt(s, i)

\* re.search(r"\b" + word + r"\b", s)
SearchWord(s, word) ==
    \E i \in 1..Len(s) :
        OccursAt(s, word, i) /\ Boundary(s, i) /\ Boundary(s, i + Len(word))

\* re.search(r"\bclass\s*\d", s)
SearchClassSpaceStar(s) ==
    \E i \in 1..Len(s) :
        /\ OccursAt(s, "class", i)
        /\ Boundary(s, i)
        /\ \E j \in (i + 5)..Len(s) :
            /\ IsDigit(CharAt(s, j))
            /\ \A k \in (i + 5)..(j - 1) : IsSpace(CharAt(s, k))

(***************************************************************************)
(* float() and round(, 2)                                                  *)
(***************************************************************************)
RECURSIVE AllDigits(_)
AllDigits(s) == s = "" \/ (IsDigit(CharAt(s, 1)) /\ AllDigits(SubSeq(s, 2, Len(s))))

RECURSIVE DigitsValue(_)
DigitsValue(s) ==
    IF s = "" THEN 0
    ELSE DigitsValue(SubSeq(s, 1, Len(s) - 1)) * 10 + (IndexIn(CharAt(s, Len(s)), Digits) - 1)

RECURSIVE PadRight(_, _)
PadRight(s, n) == IF Len(s) >= n THEN s ELSE PadRight(s \o "0", n)

\* The decimal literal body (no sign): digits, optional point, digits. Up to three
\* fraction digits are representable in thousandths.
IsDecimal(body) ==
    \/ body # "" /\ AllDigits(body)
    \/ \E i \in 1..Len(body) :
        /\ CharAt(body, i) = "."
        /\ AllDigits(SubSeq(body, 1, i - 1))
        /\ AllDigits(SubSeq(body, i + 1, Len(body)))
        /\ Len(body) > 1
        /\ Len(body) - i <= 3

DecimalValue(body) ==
    IF AllDigits(body) THEN DigitsValue(body) * 1000
    ELSE LET i == CHOOSE k \in 1..Len(body) : CharAt(body, k) = "."
         IN DigitsValue(SubSeq(body, 1, i - 1)) * 1000
              + DigitsValue(PadRight(SubSeq(body, i + 1, Len(body)), 3))

\* float(s) for a str s: surrounding whitespace and one sign are accepted, then
\* nan / inf / infinity in any case, or a decimal literal; anything else is a
\* ValueError (Raised).
FloatOfStr(s) ==
    LET t == Strip(s)
        signed == t # "" /\ CharAt(t, 1) \in {"+", "-"}
        neg == t # "" /\ CharAt(t, 1) = "-"
        body == IF signed THEN SubSeq(t, 2, Len(t)) ELSE t
        low == Lower(body)
    IN  IF low = "nan" THEN NaN
        ELSE IF low \in {"inf", "infinity"} THEN Inf(neg)
        ELSE IF IsDecimal(body)
             THEN Num(IF neg THEN 0 - DecimalValue(body) ELSE DecimalValue(body))
        ELSE Raised

\* float(val): ValueError / TypeError are reported as Raised.
Float(val) ==
    CASE val.t = "num" -> val
      [] val.t = "nan" -> val
      [] val.t = "inf" -> val
      [] val.t = "bool" -> Num(IF val.b THEN 1000 ELSE 0)
      [] val.t = "str" -> FloatOfStr(val.s)
      [] OTHER -> Raised

\* round(f, 2) on thousandths: to the nearest hundredth, an exact tie to the even
\* hundredth.
Round2(n) ==
    LET q == n \div 10
        r == n % 10
    IN  IF r < 5 THEN q * 10
        ELSE IF r > 5 THEN (q + 1) * 10
        ELSE IF q % 2 = 0 THEN q * 10 ELSE (q + 1) * 10

Round(f) == IF f.t = "num" THEN Num(Round2(f.n)) ELSE f

(***************************************************************************)
(* Business rules / helpers                                                *)
(***************************************************************************)
valid_incoterms == {"FOB", "CIF", "CFR", "EXW", "DDP", "DAP", "FCA", "CPT", "CIP", "DPU"}

normalize_incoterm_partial(val) ==
    IF ~Truthy(val) THEN Str("FOB")
    ELSE IF ~IsStr(val) THEN Raised
    ELSE LET val_upper == Upper(Strip(val.s))
         IN  IF \E w \in valid_incoterms : StartsWith(val_upper, w)
             THEN Str(SubSeq(val_upper, 1, 3))
             ELSE Str("FOB")

normalize_incoterm(val) ==
    IF ~Truthy(val) THEN Str("FOB")
    ELSE IF ~IsStr(val) THEN Raised
    ELSE LET val_upper == Upper(Strip(val.s))
         IN  IF val_upper \in valid_incoterms THEN Str(val_upper) ELSE Str("FOB")

\* `code and code.startswith("IN")`; a truthy non-string has no startswith.
IsIndia(code) == Truthy(code) /\ IsStr(code) /\ StartsWith(code.s, "IN")
BadCode(code) == Truthy(code) /\ ~IsStr(code)

determine_product_line_origin_first(origin_code, dest_code) ==
    IF BadCode(origin_code) THEN Raised
    ELSE IF IsIndia(origin_code) THEN Str("pl_sea_export_lcl")
    ELSE IF BadCode(dest_code) THEN Raised
    ELSE IF IsIndia(dest_code) THEN Str("pl_sea_import_lcl")
    ELSE None

determine_product_line(origin_code, dest_code) ==
    IF BadCode(dest_code) THEN Raised
    ELSE IF IsIndia(dest_code) THEN Str("pl_sea_import_lcl")
    ELSE IF BadCode(origin_code) THEN Raised
    ELSE IF IsIndia(origin_code) THEN Str("pl_sea_export_lcl")
    ELSE None

negatives == {"non-hazardous", "non-dg", "not dangerous", "non hazardous"}
positives_words == {"dg", "imo", "imdg"}
positives_substrings == {"dangerous", "hazardous"}

MatchesNegative(text) == \E p \in negatives : Contains(text, p)
MatchesPositive(text) ==
    \/ \E w \in positives_words : SearchWord(text, w)
    \/ \E p \in positives_substrings : Contains(text, p)
    \/ SearchClassSpaceStar(text)

check_dangerous_goods_positives_first(email_text, extracted_bool) ==
    LET text == Lower(email_text)
    IN  IF MatchesPositive(text) THEN TRUE
        ELSE FALSE

check_dangerous_goods_hint(email_text, extracted_bool) ==
    LET text == Lower(email_text)
    IN  IF MatchesNegative(text) THEN FALSE
        ELSE IF MatchesPositive(text) THEN TRUE
        ELSE extracted_bool = Bool(TRUE)

check_dangerous_goods_substring_dg(email_text, extracted_bool) ==
    LET text == Lower(email_text)
    IN  IF MatchesNegative(text) THEN FALSE
        ELSE IF MatchesPositive(text) \/ Contains(text, "dg") THEN TRUE
        ELSE FALSE

check_dangerous_goods(email_text, extracted_bool) ==
    LET text == Lower(email_text)
    IN  IF MatchesNegative(text) THEN FALSE
        ELSE IF MatchesPositive(text) THEN TRUE
        ELSE FALSE

round_metric(val) ==
    IF val = None THEN None
    ELSE LET f == Float(val)
         IN  IF f = Raised THEN None ELSE Round(f)

(***************************************************************************)
(* load_port_reference                                                     *)
(***************************************************************************)
\* The reference file as open() and json.load see it.
FileMissing == [found |-> FALSE, entries |-> <<>>]
File(entries) == [found |-> TRUE, entries |-> entries]
EmptyMap == [c \in {} |-> ""]

\* `if not code or not name: continue`
EntrySkipped(entry) == ~Truthy(entry.code) \/ ~Truthy(entry.name)

IsChennai(n) == Contains(n, "Chennai") /\ ~Contains(n, "Bangalore")

selected_name_first(code, names) == names[1]

\* The selection logic of one (code, names) item.
selected_name(code, names) ==
    IF code = "INMAA" /\ \E i \in 1..Len(names) : IsChennai(names[i])
    THEN names[CHOOSE i \in 1..Len(names) :
                 IsChennai(names[i]) /\ \A j \in 1..(i - 1) : ~IsChennai(names[j])]
    ELSE names[1]

\* One iteration of `for entry in data`.
ReadEntry ==
    /\ pc = "load"
    /\ data.found
    /\ idx < Len(data.entries)
    /\ LET entry == data.entries[idx + 1]
       IN  temp_map' =
             IF EntrySkipped(entry) THEN temp_map
             ELSE IF entry.code.s \in DOMAIN temp_map
                  THEN [temp_map EXCEPT ![entry.code.s] = Append(@, entry.name.s)]
                  ELSE [c \in DOMAIN temp_map \cup {entry.code.s} |->
                          IF c \in DOMAIN temp_map THEN temp_map[c] ELSE <<entry.name.s>>]
    /\ idx' = idx + 1
    /\ UNCHANGED <<pc, data, port_map, emails, cur, draft, oracle_ok, results, call, ret, evalVars>>

\* `for code, names in temp_map.items()` and the return; main() goes on to the emails.
SelectNames ==
    /\ pc = "load"
    /\ data.found
    /\ idx = Len(data.entries)
    /\ port_map' = [code \in DOMAIN temp_map |-> selected_name(code, temp_map[code])]
    /\ pc' = IF Len(emails) > 0 THEN "oracle" ELSE "done"
    /\ cur' = 1
    /\ UNCHANGED <<data, idx, temp_map, emails, draft, oracle_ok, results, call, ret, evalVars>>

\* `except FileNotFoundError: return {}`
FileNotFound ==
    /\ pc = "load"
    /\ ~data.found
    /\ port_map' = EmptyMap
    /\ pc' = IF Len(emails) > 0 THEN "oracle" ELSE "done"
    /\ cur' = 1
    /\ UNCHANGED <<data, idx, temp_map, emails, draft, oracle_ok, results, call, ret, evalVars>>

(***************************************************************************)
(* process_email                                                           *)
(***************************************************************************)
Absent == [t |-> "absent"]
Fields == {"product_line", "origin_port_code", "destination_port_code", "incoterm",
           "cargo_weight_kg", "cargo_cbm", "is_dangerous"}
EmptyDraft == [f \in Fields |-> Absent]
IsDict(d) == DOMAIN d = Fields

\* data.get(key)
Get(d, key) == IF d[key] = Absent THEN None ELSE d[key]

full_text(email) == email.subject \o " " \o email.body

validated_code_no_upper(code, pm) ==
    IF ~Truthy(code) THEN code
    ELSE IF ~IsStr(code) THEN Raised
    ELSE IF code.s \in DOMAIN pm THEN Str(code.s) ELSE None

\* Lines 190-193 / 195-198: uppercase a truthy code and null it when the reference
\* does not know it; a falsy value is left as it is.
validated_code(code, pm) ==
    IF ~Truthy(code) THEN code
    ELSE IF ~IsStr(code) THEN Raised
    ELSE IF Upper(code.s) \in DOMAIN pm THEN Str(Upper(code.s)) ELSE None

\* port_map.get(code) if code else None
port_name(code, pm) ==
    IF code # Raised /\ Truthy(code) /\ code.s \in DOMAIN pm THEN Str(pm[code.s]) ELSE None

\* Optional[str] of ShipmentDetails
OptionalStr(v) == v = None \/ IsStr(v)

\* Step 2 of process_email for the parsed response d: the record, or Raised when an
\* exception leaves the function.
PostProcess(email, d, pm) ==
    IF ~IsDict(d) THEN Raised
    ELSE
    LET origin_code == validated_code(Get(d, "origin_port_code"), pm)
        dest_code == validated_code(Get(d, "destination_port_code"), pm)
        origin_name == port_name(origin_code, pm)
        dest_name == port_name(dest_code, pm)
        derived == IF origin_code = Raised \/ dest_code = Raised THEN Raised
                   ELSE determine_product_line(origin_code, dest_code)
        prod_line == IF ~Truthy(derived) /\ Truthy(Get(d, "product_line"))
                     THEN Get(d, "product_line") ELSE derived
        incoterm == normalize_incoterm(Get(d, "incoterm"))
        is_dg == check_dangerous_goods(full_text(email), Get(d, "is_dangerous"))
        weight == round_metric(Get(d, "cargo_weight_kg"))
        cbm == round_metric(Get(d, "cargo_cbm"))
    IN  IF \/ origin_code = Raised \/ dest_code = Raised \/ incoterm = Raised
           \/ ~OptionalStr(origin_code) \/ ~OptionalStr(dest_code)
           \/ ~OptionalStr(prod_line)
        THEN Raised
        ELSE [id |-> Str(email.id),
              product_line |-> prod_line,
              origin_port_code |-> origin_code,
              origin_port_name |-> origin_name,
              destination_port_code |-> dest_code,
              destination_port_name |-> dest_name,
              incoterm |-> incoterm,
              cargo_weight_kg |-> weight,
              cargo_cbm |-> cbm,
              is_dangerous |-> Bool(is_dg)]

\* The record main() appends when process_email raised.
FailureRecord(email) ==
    [id |-> Str(email.id),
     product_line |-> None,
     origin_port_code |-> None,
     origin_port_name |-> None,
     destination_port_code |-> None,
     destination_port_name |-> None,
     incoterm |-> Str("FOB"),
     cargo_weight_kg |-> None,
     cargo_cbm |-> None,
     is_dangerous |-> Bool(FALSE)]

(***************************************************************************)
(* main(): the driver loop                                                 *)
(***************************************************************************)
NoDraft == [t |-> "nodraft"]
Idle == [fn |-> "idle"]

Advance ==
    /\ cur' = cur + 1
    /\ pc' = IF cur < Len(emails) THEN "oracle" ELSE "done"

\* Step 1 of process_email: the oracle answers and json.loads parses the answer.
OracleReturns(d) ==
    /\ pc = "oracle"
    /\ draft' = d
    /\ oracle_ok' = TRUE
    /\ pc' = "post"
    /\ UNCHANGED <<data, idx, temp_map, port_map, emails, cur, results, call, ret, evalVars>>

OracleFails_none ==
    /\ pc = "oracle"
    /\ draft' = None
    /\ oracle_ok' = FALSE
    /\ pc' = "post"
    /\ UNCHANGED <<data, idx, temp_map, port_map, emails, cur, results, call, ret, evalVars>>

\* Step 1 of process_email: the call or the parsing raises; `data = {}`.
OracleFails ==
    /\ pc = "oracle"
    /\ draft' = EmptyDraft
    /\ oracle_ok' = FALSE
    /\ pc' = "post"
    /\ UNCHANGED <<data, idx, temp_map, port_map, emails, cur, results, call, ret, evalVars>>

\* Step 2 of process_email returns; main() appends the record.
PostProcessReturns ==
    /\ pc = "post"
    /\ PostProcess(emails[cur], draft, port_map) # Raised
    /\ results' = Append(results, PostProcess(emails[cur], draft, port_map))
    /\ Advance
    /\ UNCHANGED <<data, idx, temp_map, port_map, emails, draft, oracle_ok, call, ret, evalVars>>

\* Step 2 of process_email raises; main() appends the failure record.
GeneralFailure ==
    /\ pc = "post"
    /\ PostProcess(emails[cur], draft, port_map) = Raised
    /\ results' = Append(results, FailureRecord(emails[cur]))
    /\ Advance
    /\ UNCHANGED <<data, idx, temp_map, port_map, emails, draft, oracle_ok, call, ret, evalVars>>

(***************************************************************************)
(* Inputs                                                                  *)
(***************************************************************************)
MaxEntries == 3
MaxEmails == 2
MaxTokens == 3
MaxPad == 1

RECURSIVE SeqsUpTo(_, _)
SeqsUpTo(S, n) ==
    IF n = 0 THEN {<<>>}
    ELSE LET prev == SeqsUpTo(S, n - 1)
         IN  prev \cup {Append(q, x) : q \in {p \in prev : Len(p) = n - 1}, x \in S}

RECURSIVE Joined(_, _)
Joined(Tokens, n) ==
    IF n = 0 THEN {""}
    ELSE LET prev == Joined(Tokens, n - 1)
         IN  prev \cup {t \o tok : t \in prev, tok \in Tokens}

Entry(code, name) == [code |-> code, name |-> name]

\* Reference entries: duplicates of INMAA with and without a Chennai name, a second
\* code, and incomplete entries (null or empty code or name).
RefEntries ==
    {Entry(Str("INMAA"), Str("Bangalore ICD")),
     Entry(Str("INMAA"), Str("Chennai ICD")),
     Entry(Str("INMAA"), Str("Chennai")),
     Entry(Str("INMAA"), Str("Chennai / Bangalore")),
     Entry(Str("HKHKG"), Str("Hong Kong")),
     Entry(Str("HKHKG"), Str("Chennai")),
     Entry(None, Str("Ghost")),
     Entry(Str("INBOM"), Str("")),
     Entry(Str("INBOM"), None),
     Entry(Str(""), Str("Nowhere"))}

RefFilesAll == {FileMissing} \cup {File(q) : q \in SeqsUpTo(RefEntries, MaxEntries)}

\* The reference files of the full runs.
RefFiles ==
    {FileMissing,
     File(<<Entry(Str("INMAA"), Str("Bangalore ICD")), Entry(Str("INMAA"), Str("Chennai ICD")),
            Entry(Str("HKHKG"), Str("Hong Kong"))>>),
     File(<<Entry(Str("INBOM"), Str("Mumbai")), Entry(Str("inmaa"), Str("Chennai")),
            Entry(Str("HKHKG"), Str(""))>>)}

\* The port maps load_port_reference returns for RefFiles.
PortMaps ==
    {EmptyMap,
     [c \in {"INMAA", "HKHKG"} |-> IF c = "INMAA" THEN "Chennai ICD" ELSE "Hong Kong"],
     [c \in {"INBOM", "inmaa"} |-> IF c = "INBOM" THEN "Mumbai" ELSE "Chennai"]}

EmailTexts ==
    {[subject |-> "Quote", body |-> "Shipment is non-hazardous."],
     [subject |-> "DG cargo", body |-> "IMO class9"],
     [subject |-> "LCL", body |-> "2 pallets"]}

EmailId(k) == "EMAIL_" \o CharAt(Digits, k + 1)

Email(k, text) == [id |-> EmailId(k), subject |-> text.subject, body |-> text.body]

EmailLists ==
    {[k \in 1..Len(q) |-> Email(k, q[k])] : q \in SeqsUpTo(EmailTexts, MaxEmails)}

Draft(pl, oc, dc, inc, w, cbm, dg) ==
    [product_line |-> pl, origin_port_code |-> oc, destination_port_code |-> dc,
     incoterm |-> inc, cargo_weight_kg |-> w, cargo_cbm |-> cbm, is_dangerous |-> dg]

\* Parsed oracle responses of the full runs: well-formed ones, and ones with an
\* unknown or empty code, a wrong type, a NaN and a response that is no object.
Drafts ==
    {EmptyDraft,
     Draft(Absent, Str("hkhkg"), Str("inmaa"), Str("fob "), Str("500"), None, Bool(TRUE)),
     Draft(Str("pl_sea_import_lcl"), Str("INMAA"), Str("HKHKG"), Str("cif"), Num(12125),
           Num(1500), Bool(FALSE)),
     Draft(Str("air"), Str("XXXXX"), Str(""), Absent, Str("12 kg"), Bool(TRUE), Str("yes")),
     Draft(Absent, Absent, Str("inbom"), Num(5000), Absent, Absent, Absent),
     Draft(Absent, Num(5000), Absent, Str("EXW"), Absent, Absent, Absent),
     Draft(Num(1000), Absent, Absent, Absent, Absent, Str("nan"), Bool(TRUE)),
     List(0)}

\* Inputs of the helpers applied on their own.
Pads == Joined({" ", "\t"}, MaxPad)
Padded(Cores) == {l \o c \o r : l \in Pads, c \in Cores, r \in Pads}

IncotermWords ==
    valid_incoterms \cup
    {"fob", "Cif", "dpu", "", "FO", "FOBX", "XFOB", "F OB", "CIF FOB", "free on board"}

NonStrings == {Num(5000), Num(0), Bool(TRUE), Bool(FALSE), List(1), List(0), Dict(0)}

IncotermInputs == {None} \cup {Str(w) : w \in Padded(IncotermWords)} \cup NonStrings

CodeInputs ==
    {None, Str(""), Str("INMAA"), Str("INBOM"), Str("HKHKG"), Str("inmaa"), Str("IN"),
     Str("I"), Str("XIN"), Str(" INMAA"), Num(5000), Num(0)}

TextTokens ==
    {"non-", "non ", "not ", "hazardous", "dangerous", "DG", "imo", "imdg", "class", " ", "9"}

Texts == Joined(TextTokens, MaxTokens)

Hints == {None, Bool(TRUE), Bool(FALSE), Str("yes")}

\* Numbers in thousandths. The ties among them and among CargoWords (12.125, 0.375,
\* 0.125, -2.625) are exact in binary floating point, where round() takes them to
\* the even hundredth; decimal ties that are not exact in binary are left out.
CargoNumbers == {0, 1000, 500000, 500001, 12125, 375, 1234, 1236, 0 - 2625, 0 - 1239}

CargoWords ==
    {"500", "12.5", "0.125", ".5", "5.", "-2.625", "+7", "12.344", "nan", "NaN", "-nan",
     "inf", "-Infinity", "", ".", "+", "abc", "12 kg", "1,200", "1.2.3", "+-5"}

CargoInputs ==
    {None, NaN, Inf(FALSE), Inf(TRUE), Bool(TRUE), Bool(FALSE), List(0), List(1), Dict(0)}
      \cup {Num(n) : n \in CargoNumbers} \cup {Str(w) : w \in Padded(CargoWords)}

CodeDraftValues ==
    {Absent, None, Str(""), Str("inmaa"), Str("INMAA"), Str("HKHKG"), Str("InBom"),
     Str("XXXXX"), Num(5000), Num(0), List(0)}

\* Parsed responses of the helper runs: each family varies one group of fields.
PortDrafts ==
    {Draft(pl, oc, dc, Absent, Absent, Absent, Absent) :
       pl \in {Absent, Str(""), Str("pl_sea_export_lcl"), Str("air"), Num(1000)},
       oc \in CodeDraftValues, dc \in CodeDraftValues}

IncotermDrafts ==
    {Draft(Absent, Absent, Absent, inc, Absent, Absent, Absent) : inc \in IncotermInputs}

CargoDrafts ==
    {Draft(Absent, Absent, Absent, Absent, w, cbm, Absent) :
       w \in CargoInputs, cbm \in {Absent, Str("1.5"), Str("nan")}}

HintDrafts ==
    {Draft(Absent, Absent, Absent, Absent, Absent, Absent, dg) : dg \in Hints \cup {Absent}}

PlainText == [subject |-> "LCL", body |-> "2 pallets"]

\* The (text, response, port map) triples process_email is applied to.
ProcessEmailCases ==
    (EmailTexts \X (Drafts \cup HintDrafts) \X PortMaps)
      \cup ({PlainText} \X PortDrafts \X PortMaps)
      \cup ({PlainText} \X (IncotermDrafts \cup CargoDrafts) \X {EmptyMap})

(***************************************************************************)
(* Helpers applied on their own: one application per run                   *)
(***************************************************************************)
Unchanged ==
    UNCHANGED <<pc, data, idx, temp_map, port_map, emails, cur, draft, oracle_ok, results,
                evalVars>>

CallNormalizeIncoterm ==
    /\ pc = "unit"
    /\ call = Idle
    /\ \E val \in IncotermInputs :
        /\ call' = [fn |-> "normalize_incoterm", val |-> val]
        /\ ret' = normalize_incoterm(val)
    /\ Unchanged

CallDetermineProductLine ==
    /\ pc = "unit"
    /\ call = Idle
    /\ \E origin_code \in CodeInputs, dest_code \in CodeInputs :
        /\ call' = [fn |-> "determine_product_line", origin_code |-> origin_code,
                    dest_code |-> dest_code]
        /\ ret' = determine_product_line(origin_code, dest_code)
    /\ Unchanged

\* The response's own flag says dangerous: the value a classifier that trusted it
\* would return.
CallCheckDangerousGoods ==
    /\ pc = "unit"
    /\ call = Idle
    /\ \E email_text \in Texts, extracted_bool \in {Bool(TRUE)} :
        /\ call' = [fn |-> "check_dangerous_goods", email_text |-> email_text,
                    extracted_bool |-> extracted_bool]
        /\ ret' = Bool(check_dangerous_goods(email_text, extracted_bool))
    /\ Unchanged

CallRoundMetric ==
    /\ pc = "unit"
    /\ call = Idle
    /\ \E val \in CargoInputs :
        /\ call' = [fn |-> "round_metric", val |-> val]
        /\ ret' = round_metric(val)
    /\ Unchanged

\* Step 2 of process_email on a parsed response.
CallProcessEmail ==
    /\ pc = "unit"
    /\ call = Idle
    /\ \E c \in ProcessEmailCases :
        /\ call' = [fn |-> "process_email", email |-> Email(1, c[1]), draft |-> c[2],
                    port_map |-> c[3]]
        /\ ret' = PostProcess(Email(1, c[1]), c[2], c[3])
    /\ Unchanged

(***************************************************************************)
(* evaluate.py: the accuracy comparator                                    *)
(***************************************************************************)
\* str(v) for the values the exact-match fields hold.
PyStr(v) ==
    CASE v.t = "str" -> v.s
      [] v.t = "bool" -> IF v.b THEN "True" ELSE "False"

normalize_string(s) ==
    IF s = None THEN "null"
    ELSE Upper(Strip(PyStr(s)))

\* == of two floats: NaN equals nothing, itself included.
FloatEq(a, b) == a.t # "nan" /\ b.t # "nan" /\ a = b

compare_floats(val1, val2) ==
    IF val1 = None /\ val2 = None THEN TRUE
    ELSE IF val1 = None \/ val2 = None THEN FALSE
    ELSE LET f1 == Float(val1)
             f2 == Float(val2)
         IN  IF f1 = Raised \/ f2 = Raised THEN FALSE
             ELSE FloatEq(Round(f1), Round(f2))

numeric_fields == {"cargo_weight_kg", "cargo_cbm"}

compare_values(field, val1, val2) ==
    IF field \in numeric_fields THEN compare_floats(val1, val2)
    ELSE LET s1 == normalize_string(val1)
             s2 == normalize_string(val2)
         IN  s1 = s2

fields_to_evaluate ==
    {"product_line", "origin_port_code", "origin_port_name", "destination_port_code",
     "destination_port_name", "incoterm", "cargo_weight_kg", "cargo_cbm", "is_dangerous"}

\* {item['id']: item for item in load_json(path)}: the keys in the order of their first
\* occurrence, each bound to the last item that carries it.  A file that is not found
\* loads as the empty list.
RECURSIVE KeysOf(_)
KeysOf(file) ==
    IF file = <<>> THEN <<>>
    ELSE LET front == KeysOf(SubSeq(file, 1, Len(file) - 1))
             id == file[Len(file)].id
         IN  IF \E k \in 1..Len(front) : front[k] = id THEN front ELSE Append(front, id)

HasId(file, id) == \E i \in 1..Len(file) : file[i].id = id

ItemOf(file, id) ==
    file[CHOOSE i \in 1..Len(file) :
            /\ file[i].id = id
            /\ \A j \in (i + 1)..Len(file) : file[j].id # id]

NoReport == [printed |-> FALSE]
ZeroMetrics == [f \in fields_to_evaluate |-> [correct |-> 0, total |-> 0]]

\* (correct / total * 100) if total > 0 else 0.0, as an exact fraction.
Accuracy(correct, total) ==
    IF total > 0 THEN [num |-> correct * 100, den |-> total] ELSE [num |-> 0, den |-> 1]

\* Lines 41-43: nothing to evaluate.
NoOutputData ==
    /\ ev_pc = "start"
    /\ outputs_file = <<>>
    /\ ev_pc' = "done"
    /\ UNCHANGED <<pc, data, idx, temp_map, port_map, emails, cur, draft, oracle_ok, results,
                   call, ret, outputs_file, truth_file, gt_pos, total_fields, correct_fields,
                   field_metrics, report>>

\* Lines 57-59: the counters.
BeginLoop ==
    /\ ev_pc = "start"
    /\ outputs_file # <<>>
    /\ total_fields' = 0
    /\ correct_fields' = 0
    /\ field_metrics' = ZeroMetrics
    /\ ev_pc' = "loop"
    /\ UNCHANGED <<pc, data, idx, temp_map, port_map, emails, cur, draft, oracle_ok, results,
                   call, ret, outputs_file, truth_file, gt_pos, report>>

SkipMissing_counted ==
    /\ ev_pc = "loop"
    /\ gt_pos < Len(KeysOf(truth_file))
    /\ ~HasId(outputs_file, KeysOf(truth_file)[gt_pos + 1])
    /\ gt_pos' = gt_pos + 1
    /\ field_metrics' = [f \in fields_to_evaluate |->
                            [field_metrics[f] EXCEPT !.total = @ + 1]]
    /\ total_fields' = total_fields + Cardinality(fields_to_evaluate)
    /\ UNCHANGED <<pc, data, idx, temp_map, port_map, emails, cur, draft, oracle_ok, results,
                   call, ret, outputs_file, truth_file, ev_pc, correct_fields, report>>

\* Lines 66-68: an id without a prediction.
SkipMissing ==
    /\ ev_pc = "loop"
    /\ gt_pos < Len(KeysOf(truth_file))
    /\ ~HasId(outputs_file, KeysOf(truth_file)[gt_pos + 1])
    /\ gt_pos' = gt_pos + 1
    /\ UNCHANGED <<pc, data, idx, temp_map, port_map, emails, cur, draft, oracle_ok, results,
                   call, ret, outputs_file, truth_file, ev_pc, total_fields, correct_fields,
                   field_metrics, report>>

\* Lines 70-83: one ground-truth record against its prediction, field by field.
CompareRecord ==
    /\ ev_pc = "loop"
    /\ gt_pos < Len(KeysOf(truth_file))
    /\ HasId(outputs_file, KeysOf(truth_file)[gt_pos + 1])
    /\ LET email_id == KeysOf(truth_file)[gt_pos + 1]
           truth == ItemOf(truth_file, email_id)
           pred == ItemOf(outputs_file, email_id)
           is_correct(field) == compare_values(field, Get(truth, field), Get(pred, field))
       IN  /\ field_metrics' =
                [f \in fields_to_evaluate |->
                    [correct |-> field_metrics[f].correct + (IF is_correct(f) THEN 1 ELSE 0),
                     total |-> field_metrics[f].total + 1]]
           /\ total_fields' = total_fields + Cardinality(fields_to_evaluate)
           /\ correct_fields' =
                correct_fields + Cardinality({f \in fields_to_evaluate : is_correct(f)})
    /\ gt_pos' = gt_pos + 1
    /\ UNCHANGED <<pc, data, idx, temp_map, port_map, emails, cur, draft, oracle_ok, results,
                   call, ret, outputs_file, truth_file, ev_pc, report>>

\* Lines 87-96: the accuracies.
PrintReport ==
    /\ ev_pc = "loop"
    /\ gt_pos = Len(KeysOf(truth_file))
    /\ report' = [printed |-> TRUE,
                  fields |-> [f \in fields_to_evaluate |->
                                Accuracy(field_metrics[f].correct, field_metrics[f].total)],
                  overall |-> Accuracy(correct_fields, total_fields)]
    /\ ev_pc' = "done"
    /\ UNCHANGED <<pc, data, idx, temp_map, port_map, emails, cur, draft, oracle_ok, results,
                   call, ret, outputs_file, truth_file, gt_pos, total_fields, correct_fields,
                   field_metrics>>

\* Records of the two files.
MaxItems == 2

Item(k, b) == [id |-> Str(EmailId(k))] @@ b

Body(pl, oc, on, dc, dn, inc, w, cbm, dg) ==
    [product_line |-> pl, origin_port_code |-> oc, origin_port_name |-> on,
     destination_port_code |-> dc, destination_port_name |-> dn, incoterm |-> inc,
     cargo_weight_kg |-> w, cargo_cbm |-> cbm, is_dangerous |-> dg]

BodyImport ==
    Body(Str("pl_sea_import_lcl"), Str("HKHKG"), Str("Hong Kong"), Str("INMAA"),
         Str("Chennai ICD"), Str("FOB"), Num(500000), None, Bool(FALSE))
BodyImportLoose ==
    Body(Str("pl_sea_import_lcl"), Str("HKHKG"), Str("hong kong "), Str("INMAA"),
         Str("Chennai ICD"), Str("fob"), Num(500001), None, Bool(FALSE))
BodyDefaults ==
    Body(None, None, None, None, None, Str("FOB"), None, None, Bool(FALSE))
BodyOdd ==
    Body(Str("null"), None, None, None, None, Str("CIF"), NaN, Inf(FALSE), Bool(TRUE))

Bodies == {BodyImport, BodyImportLoose, BodyDefaults, BodyOdd}
Items == {Item(k, b) : k \in 1..2, b \in Bodies}
TruthFiles == SeqsUpTo(Items, MaxItems)
OutputFiles ==
    { <<>>,
      <<Item(1, BodyImport)>>,
      <<Item(2, BodyImportLoose), Item(1, BodyDefaults)>>,
      <<Item(1, BodyImport), Item(1, BodyOdd)>>,
      <<Item(2, BodyOdd)>> }

\* compare_values on its own.
ExactValues ==
    {None, Str("null"), Str(" Null "), Str("NULL"), Str("FOB"), Str("fob "), Str(""),
     Str("True"), Bool(TRUE), Bool(FALSE)}
FloatValues ==
    {None, Num(500000), Num(500001), Num(500004), Num(500010), Num(125), Num(120),
     Str("500"), Str("abc"), NaN, Inf(FALSE)}

CallCompareValues ==
    /\ pc = "unit"
    /\ call = Idle
    /\ \E field \in fields_to_evaluate :
       \E val1, val2 \in (IF field \in numeric_fields THEN FloatValues ELSE ExactValues) :
        /\ call' = [fn |-> "compare_values", field |-> field, val1 |-> val1, val2 |-> val2]
        /\ ret' = Bool(compare_values(field, val1, val2))
    /\ Unchanged

(***************************************************************************)
(* Specifications                                                          *)
(***************************************************************************)
InitCommon ==
    /\ idx = 0
    /\ temp_map = [c \in {} |-> <<>>]
    /\ port_map = EmptyMap
    /\ cur = 0
    /\ draft = NoDraft
    /\ oracle_ok = TRUE
    /\ results = <<>>
    /\ call = Idle
    /\ ret = None

\* No evaluation in progress.
InitEvalOff ==
    /\ outputs_file = <<>>
    /\ truth_file = <<>>
    /\ ev_pc = "off"
    /\ gt_pos = 0
    /\ total_fields = 0
    /\ correct_fields = 0
    /\ field_metrics = ZeroMetrics
    /\ report = NoReport

\* main() on a reference file and an input file.
Init ==
    /\ pc = "load"
    /\ data \in RefFiles
    /\ emails \in EmailLists
    /\ InitCommon
    /\ InitEvalOff

Next ==
    \/ ReadEntry
    \/ SelectNames
    \/ FileNotFound
    \/ \E d \in Drafts : OracleReturns(d)
    \/ OracleFails
    \/ PostProcessReturns
    \/ GeneralFailure

Spec == Init /\ [][Next]_vars

\* load_port_reference alone, on every reference file within the bound.
InitLoad ==
    /\ pc = "load"
    /\ data \in RefFilesAll
    /\ emails = <<>>
    /\ InitCommon
    /\ InitEvalOff

NextLoad ==
    \/ ReadEntry
    \/ SelectNames
    \/ FileNotFound

SpecLoad == InitLoad /\ [][NextLoad]_vars

\* The helpers applied on their own to inputs of their domains.
InitHelpers ==
    /\ pc = "unit"
    /\ data = FileMissing
    /\ emails = <<>>
    /\ InitCommon
    /\ InitEvalOff

NextHelpers ==
    \/ CallNormalizeIncoterm
    \/ CallDetermineProductLine
    \/ CallCheckDangerousGoods
    \/ CallRoundMetric
    \/ CallProcessEmail

SpecHelpers == InitHelpers /\ [][NextHelpers]_vars

\* compare_values applied on its own to pairs of values of a field.
NextCompare == CallCompareValues

SpecCompare == InitHelpers /\ [][NextCompare]_vars

\* evaluate_accuracy on a ground-truth file and an output file: any ground truth within
\* the bound, against a copy of itself or one of the sample outputs.
InitEval ==
    /\ pc = "eval"
    /\ data = FileMissing
    /\ emails = <<>>
    /\ InitCommon
    /\ truth_file \in TruthFiles
    /\ outputs_file \in {truth_file} \cup OutputFiles
    /\ ev_pc = "start"
    /\ gt_pos = 0
    /\ total_fields = 0
    /\ correct_fields = 0
    /\ field_metrics = ZeroMetrics
    /\ report = NoReport

NextEval ==
    \/ NoOutputData
    \/ BeginLoop
    \/ SkipMissing
    \/ CompareRecord
    \/ PrintReport

SpecEval == InitEval /\ [][NextEval]_vars

(***************************************************************************)
(* Properties                                                              *)
(***************************************************************************)
Import == Str("pl_sea_import_lcl")
Export == Str("pl_sea_export_lcl")

\* The last record main() appended, its email and (outside "post") its response.
Emitted == pc \in {"oracle", "done"} /\ Len(results) > 0
LastRecord == results[Len(results)]
LastEmail == emails[Len(results)]

\* One side of a record against the reference map pm.
SideResolved(code, name, pm) ==
    \/ code = None /\ name = None
    \/ /\ IsStr(code)
       /\ code.s \in DOMAIN pm
       /\ code.s = Upper(code.s)
       /\ name = Str(pm[code.s])

\* A response code that the reference does not know, once uppercased.
Unknown(code, pm) == IsStr(code) /\ Upper(code.s) \notin DOMAIN pm

\* C1: in every record process_email returns, each side's port code is absent or an
\* uppercase key of the reference map, the name is present exactly when the code is
\* and is then the map's entry; a response code the map does not know gives an
\* absent code and an absent name.
C1_PortsResolved ==
    Emitted /\ IsDict(draft) =>
        /\ SideResolved(LastRecord.origin_port_code, LastRecord.origin_port_name, port_map)
        /\ SideResolved(LastRecord.destination_port_code, LastRecord.destination_port_name,
                        port_map)
        /\ Unknown(Get(draft, "origin_port_code"), port_map) =>
             LastRecord.origin_port_code = None /\ LastRecord.origin_port_name = None
        /\ Unknown(Get(draft, "destination_port_code"), port_map) =>
             LastRecord.destination_port_code = None /\ LastRecord.destination_port_name = None

ClaimedIncoterms == {"FOB", "CIF", "CFR", "EXW", "DDP", "DAP", "FCA", "CPT", "CIP", "DPU"}

\* C2: for an absent or string incoterm, normalize_incoterm returns the trimmed,
\* uppercased input when that is one of the ten incoterms and FOB otherwise; the
\* incoterm of every record process_email returns is one of the ten.
C2_IncotermInSet ==
    /\ call.fn = "normalize_incoterm" /\ (call.val = None \/ IsStr(call.val)) =>
        /\ IsStr(ret)
        /\ ret.s \in ClaimedIncoterms
        /\ LET trimmed == IF IsStr(call.val) THEN Upper(Strip(call.val.s)) ELSE ""
           IN  ret.s = IF trimmed \in ClaimedIncoterms THEN trimmed ELSE "FOB"
    /\ call.fn = "process_email" /\ ret # Raised =>
        IsStr(ret.incoterm) /\ ret.incoterm.s \in ClaimedIncoterms

\* A padded, lower-case member is returned trimmed and uppercased.
C2_Witness ==
    /\ call.fn = "normalize_incoterm"
    /\ IsStr(call.val)
    /\ call.val.s \notin ClaimedIncoterms
    /\ Strip(call.val.s) # call.val.s
    /\ ret = Str("CIF")

ClaimedNegatives == {"non-hazardous", "non-dg", "not dangerous", "non hazardous"}
HasClaimedNegative(text) == \E p \in ClaimedNegatives : Contains(Lower(text), p)

\* C3: a text that contains a negative dangerous-goods pattern, in any letter case,
\* is classified false whatever positive patterns it also contains.
C3_NegativesWin ==
    call.fn = "check_dangerous_goods" /\ HasClaimedNegative(call.email_text) =>
        ret = Bool(FALSE)

\* A positive pattern comes first in the text and a negative one follows.
C3_Witness ==
    /\ call.fn = "check_dangerous_goods"
    /\ StartsWith(call.email_text, "dangerous")
    /\ Contains(call.email_text, "non-DG")
    /\ ret = Bool(FALSE)

\* C4: process_email gives the same is_dangerous, a boolean, for responses that
\* differ only in their is_dangerous value.
C4_HintIgnored ==
    call.fn = "process_email" /\ IsDict(call.draft) =>
        \A hint \in Hints \cup {Absent} :
            LET other == PostProcess(call.email, [call.draft EXCEPT !.is_dangerous = hint],
                                     call.port_map)
            IN  /\ (other = Raised) = (ret = Raised)
                /\ ret # Raised =>
                    /\ ret.is_dangerous \in {Bool(TRUE), Bool(FALSE)}
                    /\ other.is_dangerous = ret.is_dangerous

\* The response says dangerous, the text does not, and the record says false.
C4_Witness ==
    /\ call.fn = "process_email"
    /\ IsDict(call.draft)
    /\ call.draft.is_dangerous = Bool(TRUE)
    /\ ret # Raised
    /\ ret.is_dangerous = Bool(FALSE)
    /\ ~HasClaimedNegative(full_text(call.email))

\* "class", then at least one whitespace character, then a digit.
ClassSpaceDigit(s) ==
    \E i \in 1..Len(s) :
        /\ OccursAt(s, "class", i)
        /\ Boundary(s, i)
        /\ \E j \in (i + 6)..Len(s) :
            /\ IsDigit(CharAt(s, j))
            /\ \A k \in (i + 5)..(j - 1) : IsSpace(CharAt(s, k))

\* "class", then any number of whitespace characters (none included), then a digit.
ClassDigit(s) ==
    \E i \in 1..Len(s) :
        /\ OccursAt(s, "class", i)
        /\ Boundary(s, i)
        /\ \E j \in (i + 5)..Len(s) :
            /\ IsDigit(CharAt(s, j))
            /\ \A k \in (i + 5)..(j - 1) : IsSpace(CharAt(s, k))

ClaimedKeyword(s) ==
    \/ SearchWord(s, "dg")
    \/ Contains(s, "dangerous")
    \/ Contains(s, "hazardous")
    \/ SearchWord(s, "imo")
    \/ SearchWord(s, "imdg")

\* C5 as stated: check_dangerous_goods returns true only for a text with a positive
\* pattern, the class pattern being "class", whitespace, digit; a text with no
\* positive and no negative pattern is classified false.
C5_PositivesAsStated ==
    call.fn = "check_dangerous_goods" =>
        LET text == Lower(call.email_text)
            positive == ClaimedKeyword(text) \/ ClassSpaceDigit(text)
        IN  /\ ret = Bool(TRUE) => positive
            /\ ~positive /\ ~HasClaimedNegative(call.email_text) => ret = Bool(FALSE)

\* C5 amended: the class pattern is "class" followed by optional whitespace and a
\* digit, so "class9" is a positive pattern as well as "class 9".
C5_PositivesOptionalSpace ==
    call.fn = "check_dangerous_goods" =>
        LET text == Lower(call.email_text)
            positive == ClaimedKeyword(text) \/ ClassDigit(text)
        IN  /\ ret = Bool(TRUE) => positive
            /\ ~positive /\ ~HasClaimedNegative(call.email_text) => ret = Bool(FALSE)

\* "class" directly followed by a digit, and no other positive pattern: true.
C5_Witness ==
    /\ call.fn = "check_dangerous_goods"
    /\ Contains(call.email_text, "class9")
    /\ ~ClaimedKeyword(Lower(call.email_text))
    /\ ~ClassSpaceDigit(Lower(call.email_text))
    /\ ret = Bool(TRUE)

\* C6: determine_product_line returns import when the destination code is present
\* and starts with IN, otherwise export when the origin code is present and starts
\* with IN, otherwise nothing; the destination is looked at first.
C6_DestinationFirst ==
    /\ call.fn = "determine_product_line"
    /\ call.origin_code = None \/ IsStr(call.origin_code)
    /\ call.dest_code = None \/ IsStr(call.dest_code)
    =>
    ret = IF IsStr(call.dest_code) /\ StartsWith(call.dest_code.s, "IN") THEN Import
          ELSE IF IsStr(call.origin_code) /\ StartsWith(call.origin_code.s, "IN") THEN Export
          ELSE None

\* Both codes start with IN: import.
C6_Witness ==
    /\ call.fn = "determine_product_line"
    /\ call.origin_code = Str("INBOM")
    /\ call.dest_code = Str("INMAA")
    /\ ret = Import

\* A value that parses: float() accepts it.
Parses(val) == val # None /\ Float(val) # Raised

\* C7: round_metric returns nothing or a valid number with two decimals, never NaN
\* or an infinity, never raises, and round_metric of its result is its result.
C7_ValidTwoDecimals ==
    call.fn = "round_metric" =>
        /\ ret = None \/ (ret.t = "num" /\ ret.n % 10 = 0)
        /\ Parses(call.val) => round_metric(ret) = ret

\* C8: when step 1 of process_email fails, the record appended for the email has
\* the email's id, no product line, ports or cargo values, incoterm FOB, and the
\* classification of the email's text as is_dangerous.
C8_SafeDefaults ==
    Emitted /\ ~oracle_ok =>
        LastRecord =
            [id |-> Str(LastEmail.id),
             product_line |-> None,
             origin_port_code |-> None,
             origin_port_name |-> None,
             destination_port_code |-> None,
             destination_port_name |-> None,
             incoterm |-> Str("FOB"),
             cargo_weight_kg |-> None,
             cargo_cbm |-> None,
             is_dangerous |-> Bool(check_dangerous_goods(full_text(LastEmail), None))]

\* The oracle failed on an email whose text is dangerous: the record says so.
C8_Witness ==
    /\ Emitted
    /\ ~oracle_ok
    /\ LastRecord.is_dangerous = Bool(TRUE)
    /\ LastRecord.incoterm = Str("FOB")

\* C9: step 2 of process_email returns a record for every response object,
\* whatever the types of its values.
C9_NeverRaises ==
    call.fn = "process_email" /\ IsDict(call.draft) => ret # Raised

\* The entries of the reference file that have a code and a name.
Complete(i) == Truthy(data.entries[i].code) /\ Truthy(data.entries[i].name)
CompleteFor(code) ==
    {i \in 1..Len(data.entries) : Complete(i) /\ data.entries[i].code.s = code}
ChennaiFor(code) == {i \in CompleteFor(code) : IsChennai(data.entries[i].name.s)}
Min(S) == CHOOSE i \in S : \A j \in S : i <= j

\* C10: the map load_port_reference returns has exactly the codes of the complete
\* entries as keys, each with its first name in input order, except INMAA, which has
\* its first name with Chennai and without Bangalore when there is one.
C10_FirstSeenOrChennai ==
    pc = "done" =>
        /\ DOMAIN port_map =
             {data.entries[i].code.s : i \in {k \in 1..Len(data.entries) : Complete(k)}}
        /\ \A code \in DOMAIN port_map :
             port_map[code] =
               IF code = "INMAA" /\ ChennaiFor(code) # {}
               THEN data.entries[Min(ChennaiFor(code))].name.s
               ELSE data.entries[Min(CompleteFor(code))].name.s

\* INMAA is listed first with a Bangalore name and resolves to a later Chennai name.
C10_Witness ==
    /\ pc = "done"
    /\ Len(data.entries) >= 2
    /\ data.entries[1] = Entry(Str("INMAA"), Str("Bangalore ICD"))
    /\ "INMAA" \in DOMAIN port_map
    /\ port_map["INMAA"] = "Chennai ICD"

\* The run of evaluate_accuracy has printed its report.
Reported == ev_pc = "done" /\ report.printed

\* C11: comparing a set of records against an identical copy of itself yields 100%
\* accuracy: at the end of evaluate_accuracy on an output file that equals the
\* ground-truth file, every per-field correct count equals its total and the global
\* correct count equals the global total.
C11_SelfComparisonPerfect ==
    (Reported /\ outputs_file = truth_file) =>
        /\ \A f \in fields_to_evaluate : field_metrics[f].correct = field_metrics[f].total
        /\ correct_fields = total_fields

\* The ground-truth ids iterated so far that have a prediction.
Paired == {k \in 1..gt_pos : HasId(outputs_file, KeysOf(truth_file)[k])}
PairedCorrect(f) ==
    {k \in Paired :
        LET id == KeysOf(truth_file)[k]
        IN  compare_values(f, Get(ItemOf(truth_file, id), f), Get(ItemOf(outputs_file, id), f))}

RECURSIVE SumOver(_, _)
SumOver(n, S) ==
    IF S = {} THEN 0
    ELSE LET x == CHOOSE x \in S : TRUE
         IN  n[x] + SumOver(n, S \ {x})

ZeroAccuracy == [num |-> 0, den |-> 1]

\* C12: at every point of the accumulation loop of evaluate_accuracy and at its end, each
\* field's total is the number of ground-truth ids processed so far that have a
\* prediction (an id without one adds nothing to any counter), each field's correct
\* count is the number of those whose values compare equal and so lies between 0 and
\* the total, the global counters are the sums of the per-field ones, and a total of 0
\* is reported as accuracy 0.
C12_CountersConsistent ==
    /\ \A f \in fields_to_evaluate :
        /\ field_metrics[f].total = Cardinality(Paired)
        /\ field_metrics[f].correct = Cardinality(PairedCorrect(f))
        /\ 0 <= field_metrics[f].correct
        /\ field_metrics[f].correct <= field_metrics[f].total
    /\ total_fields = SumOver([f \in fields_to_evaluate |-> field_metrics[f].total],
                              fields_to_evaluate)
    /\ correct_fields = SumOver([f \in fields_to_evaluate |-> field_metrics[f].correct],
                                fields_to_evaluate)
    /\ Reported =>
        /\ \A f \in fields_to_evaluate :
             field_metrics[f].total = 0 => report.fields[f] = ZeroAccuracy
        /\ total_fields = 0 => report.overall = ZeroAccuracy

\* A report after one id was skipped and another compared, with some fields right and
\* some wrong.
C12_Witness ==
    /\ Reported
    /\ Cardinality(Paired) = 1
    /\ gt_pos = 2
    /\ 0 < correct_fields
    /\ correct_fields < total_fields

\* The code a draft's raw port code stands for: its uppercase form when the reference
\* knows it.
Resolved(raw, pm) ==
    IF IsStr(raw) /\ raw.s # "" /\ Upper(raw.s) \in DOMAIN pm THEN Str(Upper(raw.s)) ELSE None
DerivedLine ==
    determine_product_line(Resolved(Get(call.draft, "origin_port_code"), call.port_map),
                           Resolved(Get(call.draft, "destination_port_code"), call.port_map))
Returned == call.fn = "process_email" /\ IsDict(call.draft) /\ ret # Raised

\* C13: the product_line of a record is determine_product_line of the validated
\* (uppercased, reference-checked) port codes when that is present, and otherwise the
\* draft's own product_line value verbatim, whatever that value is, absent when the
\* draft has none.
C13_FallbackVerbatim ==
    Returned =>
        ret.product_line =
            IF DerivedLine # None THEN DerivedLine ELSE Get(call.draft, "product_line")

\* C13, amended: the product_line of a record process_email returns is
\* determine_product_line of the validated port codes when that is present; otherwise it
\* is the draft's own product_line when that is a non-empty string, and absent when the
\* draft's value is missing, null or empty.  A fallback value that is not a string is in
\* no record: process_email raises on it.
C13_FallbackWhenTruthy ==
    (call.fn = "process_email" /\ IsDict(call.draft)) =>
        LET raw_line == Get(call.draft, "product_line")
        IN  /\ ret # Raised =>
                ret.product_line =
                    IF DerivedLine # None THEN DerivedLine
                    ELSE IF Truthy(raw_line) THEN raw_line
                    ELSE None
            /\ (DerivedLine = None /\ Truthy(raw_line) /\ ~IsStr(raw_line)) => ret = Raised

\* A lowercase destination code the reference knows in uppercase makes the record an
\* import, against the draft's own export.
C13_Witness ==
    /\ Returned
    /\ Get(call.draft, "destination_port_code") = Str("inmaa")
    /\ "INMAA" \in DOMAIN call.port_map
    /\ Get(call.draft, "product_line") = Str("pl_sea_export_lcl")
    /\ ret.product_line = Import

\* A textual null: the word null in any letter case with any surrounding whitespace.
TextualNull(v) == IsStr(v) /\ Upper(Strip(v.s)) = "NULL"
ExactCall == call.fn = "compare_values" /\ call.field \notin numeric_fields

\* C14: for the non-numeric fields, compare_values judges an absent value and the
\* textual value null (in any letter case, with any surrounding whitespace) equal, in
\* either order.
C14_NullConsistent ==
    ExactCall =>
        /\ (call.val1 = None /\ TextualNull(call.val2)) => ret = Bool(TRUE)
        /\ (TextualNull(call.val1) /\ call.val2 = None) => ret = Bool(TRUE)

====
